---- MODULE Spec2Model ----
(***************************************************************************)
(* The SPL token balance checker page (src/src/routes/+page.svelte): the   *)
(* three input fields with their local-storage copies, the handler         *)
(* checkBalances and the asynchronous token / wallet tasks it starts.      *)
(*                                                                         *)
(* A text field is represented by the sequence of its lines, so that       *)
(* split('\n') and join('\n') are the representation itself; trimming and  *)
(* the removal of empty lines are computed.  Every outbound call is a      *)
(* task position ("inflight") that a separate response action completes,   *)
(* so responses arrive in any order.                                       *)
(***************************************************************************)
EXTENDS Integers, Sequences, FiniteSets, TLC

(***************************************************************************)
(* Bounds of the model.                                                    *)
(***************************************************************************)
MaxTokenLines == 2
MaxWalletLines == 3
\* outbound calls a run starts with: per token line the two fetches, the
\* supply call and one account lookup per wallet line
MaxCalls == 8
\* outbound calls that fail (reject, answer non-OK, or do not parse)
MaxFaults == 2
\* the same count of calls, for the runs during which the URL is edited
MaxUrlCalls == 4

(***************************************************************************)
(* The values the fields can hold.                                         *)
(***************************************************************************)
TokenLine == {"", " ", "T1", "T2", "y1", " y2 "}
WalletLine == {"", " ", "W1", " W1 ", "W2", "x1", "x2"}
UrlValue == {"", " ", "http://u1"}

\* the strings new PublicKey accepts
ValidKey == {"T1", "T2", "W1", "W2"}

SeqsUpTo(S, n) == UNION {[1..k -> S] : k \in 1..n}

(***************************************************************************)
(* String.prototype.trim on the lines of the model.                        *)
(***************************************************************************)
Trim(s) ==
    CASE s = " " -> ""
      [] s = " y2 " -> "y2"
      [] s = " W1 " -> "W1"
      [] OTHER -> s

\* variant: the field is tested without trim
IsBlankUntrimmed(text) == text = <<"">>

\* text.trim() is empty: no line holds a character other than white space
IsBlank(text) == \A i \in 1..Len(text) : Trim(text[i]) = ""

NonEmpty(s) == s # ""

\* text.split('\n').map(addr => addr.trim()).filter(addr => addr)
CleanLines(text) == SelectSeq([i \in 1..Len(text) |-> Trim(text[i])], NonEmpty)

isValidPublicKey(address) == address \in ValidKey

\* variant: of equal addresses the last one keeps its place
RECURSIVE SetOrderKeepsLast(_)
SetOrderKeepsLast(addresses) ==
    IF addresses = <<>> THEN <<>>
    ELSE LET rest == SetOrderKeepsLast(Tail(addresses))
         IN IF \E i \in 1..Len(rest) : rest[i] = Head(addresses)
            THEN rest
            ELSE <<Head(addresses)>> \o rest

(***************************************************************************)
(* removeDuplicates: [...new Set(addresses)] keeps the first occurrence of *)
(* every element, in insertion order.                                      *)
(***************************************************************************)
RECURSIVE SetOrder(_)
SetOrder(addresses) ==
    IF addresses = <<>> THEN <<>>
    ELSE LET front == SetOrder(SubSeq(addresses, 1, Len(addresses) - 1))
             last == addresses[Len(addresses)]
         IN IF \E i \in 1..Len(front) : front[i] = last
            THEN front
            ELSE Append(front, last)

removeDuplicates(addresses) ==
    LET uniqueAddresses == SetOrder(addresses)
    IN [uniqueAddresses |-> uniqueAddresses,
        duplicatesRemoved |-> Len(addresses) - Len(uniqueAddresses)]

\* variant: the loop keeps the last malformed address it meets
LastInvalid(addrs) ==
    LET bad == {i \in 1..Len(addrs) : ~isValidPublicKey(addrs[i])}
    IN addrs[CHOOSE i \in bad : \A k \in bad : i >= k]

\* the first element of a sequence that is no valid key
FirstInvalid(addrs) ==
    LET bad == {i \in 1..Len(addrs) : ~isValidPublicKey(addrs[i])}
    IN addrs[CHOOSE i \in bad : \A k \in bad : i <= k]

AllValid(addrs) == \A i \in 1..Len(addrs) : isValidPublicKey(addrs[i])

(***************************************************************************)
(* What the RPC endpoint and the price service answer when a call          *)
(* succeeds.  The amounts are chosen so that every percentage is a whole   *)
(* number.                                                                 *)
(***************************************************************************)
ChainSupply(mint) == IF mint = "T1" THEN 1000 ELSE 0

ChainAccounts(wallet, mint) ==
    CASE wallet = "W1" /\ mint = "T1" -> <<"a1", "a2">>
      [] wallet = "W1" /\ mint = "T2" -> <<"a3", "a5">>
      [] wallet = "W2" /\ mint = "T2" -> <<"a4">>
      [] OTHER -> <<>>

ChainAmount(account) ==
    CASE account = "a1" -> 60
      [] account = "a2" -> 40
      [] account = "a3" -> 50
      [] account = "a4" -> 30
      [] account = "a5" -> 20
      [] OTHER -> 0

ApiPrice(mint) == IF mint = "T1" THEN 6 ELSE 0
SolPrice == 3

NULL == [null |-> TRUE]

\* the TokenInfo getTokenInfo builds from the two parsed bodies
TokenInfo(mintAddress) ==
    [symbol |-> mintAddress,
     decimals |-> 0,
     usdPrice |-> ApiPrice(mintAddress),
     solPrice |-> IF SolPrice > 0 THEN ApiPrice(mintAddress) \div SolPrice ELSE 0]

\* (balance / totalSupply) * 100, or 0 without supply
Percentage(balance, totalSupply) ==
    IF totalSupply > 0 THEN (balance * 100) \div totalSupply ELSE 0

(***************************************************************************)
(* Messages.                                                               *)
(***************************************************************************)
MsgNoWallet == "Please enter at least one wallet address"
MsgNoUrl == "Please enter a connection URL"
MsgNoToken == "Please enter at least one token address"
MsgBadToken(addr) == "Invalid token address format: " \o addr
MsgBadWallet(addr) == "Invalid wallet address format: " \o addr
ErrSupply == "failed to get token supply"
ErrAccounts == "failed to get token accounts owned by account"
ErrBalance == "failed to get token account balance"
RunError(message) == "Error: " \o message

MsgBadUrl == "Invalid connection URL: Endpoint URL must start with http: or https:."

DefaultEndpoint == "https://api.mainnet-beta.solana.com"

VARIABLES
    walletAddresses,     \* the wallet field, as lines
    connectionUrl,       \* the RPC URL field
    tokenAddresses,      \* the token field, as lines
    storage,             \* localStorage: the persisted copies of the fields
    connection,          \* endpoint of the shared Connection handle
    loading,
    error,
    individualBalances,
    duplicatesRemoved,
    tokenResults,
    tAddresses,          \* checkBalances: the cleaned token addresses
    addresses,           \* checkBalances: the deduplicated wallet addresses
    tasks,               \* one task per token of the latest run
    faults               \* failed outbound calls so far

vars == <<walletAddresses, connectionUrl, tokenAddresses, storage, connection,
          loading, error, individualBalances, duplicatesRemoved, tokenResults,
          tAddresses, addresses, tasks, faults>>

fields == <<walletAddresses, connectionUrl, tokenAddresses, storage, connection>>
published == <<individualBalances, tokenResults>>
runLocals == <<tAddresses, addresses, tasks>>

\* the reactive block that saves the fields
Saved(url, tokens, wallets) ==
    [connectionUrl |-> url, tokenAddresses |-> tokens, walletAddresses |-> wallets]

\* new Connection(endpoint) throws unless the endpoint is an http(s) URL
ValidEndpoint(endpoint) == endpoint \in {"http://u1", DefaultEndpoint}

\* variant: the handle is built once and not rebuilt when the URL changes
NewConnectionOnce(old, url) == old

\* the reactive block that rebuilds the connection: the handle for
\* connectionUrl || the default, or the handle as it was when that throws
NewConnection(old, url) ==
    LET endpoint == IF url # "" THEN url ELSE DefaultEndpoint
    IN IF ValidEndpoint(endpoint) THEN endpoint ELSE old

\* the message that block leaves in error, if any
ConnectionError(old, url) ==
    LET endpoint == IF url # "" THEN url ELSE DefaultEndpoint
    IN IF ValidEndpoint(endpoint) THEN old ELSE MsgBadUrl

(***************************************************************************)
(* The page once it is mounted and the user has filled in the three bound  *)
(* fields, before the first click: the reactive blocks have saved the      *)
(* fields and rebuilt the connection (the handle built at construction,    *)
(* for the default endpoint, stays when the URL is not one), and nothing   *)
(* has been checked yet.                                                   *)
(***************************************************************************)
Init ==
    /\ tokenAddresses \in SeqsUpTo(TokenLine, MaxTokenLines)
    /\ walletAddresses \in SeqsUpTo(WalletLine, MaxWalletLines)
    /\ Len(tokenAddresses) * (3 + Len(walletAddresses)) <= MaxCalls
    /\ connectionUrl \in UrlValue
    /\ storage = Saved(connectionUrl, tokenAddresses, walletAddresses)
    /\ connection = NewConnection(DefaultEndpoint, connectionUrl)
    /\ loading = FALSE
    /\ error = ConnectionError("", connectionUrl)
    /\ individualBalances = <<>>
    /\ duplicatesRemoved = 0
    /\ tokenResults = <<>>
    /\ tAddresses = <<>>
    /\ addresses = <<>>
    /\ tasks = <<>>
    /\ faults = 0

(***************************************************************************)
(* The tasks of a run.  tAddresses.map(async tokenAddr => ...) runs every  *)
(* token's function up to its first await, so when the handler yields each *)
(* token has both fetches of getTokenInfo and the getTokenSupply call in   *)
(* flight.  An RPC call goes to the endpoint of the connection handle as   *)
(* it is when the call is made.                                            *)
(***************************************************************************)
NewTask(tokenAddr) ==
    [mint |-> tokenAddr,
     tokenFetch |-> "inflight",   \* fetch of tokens.jup.ag/token/<mint>
     priceFetch |-> "inflight",   \* fetch of api.jup.ag/price/v2
     infoPc |-> "fetch",          \* getTokenInfo: fetch, parse, then how it
                                  \* returned: info, notok (null), caught (null)
     info |-> NULL,
     supplyPc |-> "inflight",     \* getTotalSupply: inflight, ok, failed
     supplyVia |-> connection,    \* the endpoint getTokenSupply was sent to
     supply |-> 0,
     pc |-> "join",               \* join, wallets, done, rejected
     wallets |-> <<>>,
     report |-> NULL]

\* getTokenBalance up to its first await: getTokenAccountsByOwner in flight
NewLookup(walletAddress) ==
    [address |-> walletAddress,
     pc |-> "accounts",           \* accounts, balance, done
     accounts |-> <<>>,
     via |-> <<connection>>,      \* the endpoints of the calls sent so far
     k |-> 0,                     \* the account whose balance is in flight
     balance |-> 0,               \* the local sum
     result |-> NULL]

\* variant: the reduction starts from the second record
RECURSIVE SumBalancesFromSecond(_)
SumBalancesFromSecond(balances) ==
    IF Len(balances) <= 1 THEN 0
    ELSE SumBalancesFromSecond(SubSeq(balances, 1, Len(balances) - 1))
         + balances[Len(balances)].balance

\* balances.reduce((sum, result) => sum + result.balance, 0)
RECURSIVE SumBalances(_)
SumBalances(balances) ==
    IF balances = <<>> THEN 0
    ELSE SumBalances(SubSeq(balances, 1, Len(balances) - 1))
         + balances[Len(balances)].balance

\* the TokenResults a token's function returns
Report(task, balances) ==
    LET totalBalance == SumBalances(balances)
    IN [address |-> task.mint,
        info |-> task.info,
        totalSupply |-> task.supply,
        balances |-> balances,
        totalBalance |-> totalBalance,
        percentageOfSupply |-> Percentage(totalBalance, task.supply)]

InfoReturned(task) == task.infoPc \in {"info", "notok", "caught"}

\* variant: the enrichment is not awaited before the lookups are started
JoinOnSupply(task, addrs) ==
    IF task.pc = "join" /\ task.supplyPc = "ok"
    THEN [task EXCEPT !.pc = "wallets",
                      !.wallets = [j \in 1..Len(addrs) |-> NewLookup(addrs[j])]]
    ELSE task

\* variant: the supply is not awaited before the lookups are started
JoinOnInfo(task, addrs) ==
    IF task.pc = "join" /\ InfoReturned(task)
    THEN [task EXCEPT !.pc = "wallets",
                      !.wallets = [j \in 1..Len(addrs) |-> NewLookup(addrs[j])]]
    ELSE task

\* variant: the lookups are started from the last address to the first
JoinReversed(task, addrs) ==
    IF task.pc = "join" /\ InfoReturned(task) /\ task.supplyPc = "ok"
    THEN [task EXCEPT !.pc = "wallets",
                      !.wallets = [j \in 1..Len(addrs) |->
                                      NewLookup(addrs[Len(addrs) + 1 - j])]]
    ELSE task

\* await Promise.all([getTokenInfo, getTotalSupply]) resolved: the wallet
\* lookups are all started
Join(task, addrs) ==
    IF task.pc = "join" /\ InfoReturned(task) /\ task.supplyPc = "ok"
    THEN [task EXCEPT !.pc = "wallets",
                      !.wallets = [j \in 1..Len(addrs) |-> NewLookup(addrs[j])]]
    ELSE task

\* await Promise.all(addresses.map(getTokenBalance)) resolved: the report
Collect(task) ==
    IF task.pc = "wallets" /\ \A j \in 1..Len(task.wallets) : task.wallets[j].pc = "done"
    THEN [task EXCEPT !.pc = "done",
                      !.report = Report(task, [j \in 1..Len(task.wallets) |->
                                                   task.wallets[j].result])]
    ELSE task

\* results.forEach(result => individualBalances.push(...result.balances))
RECURSIVE Flatten(_)
Flatten(results) ==
    IF results = <<>> THEN <<>>
    ELSE Flatten(SubSeq(results, 1, Len(results) - 1)) \o results[Len(results)].balances

AllDone(ts) == \A i \in 1..Len(ts) : ts[i].pc = "done"

\* variant: the new reports are added to the ones on the page
PublishAppends(ts) ==
    IF loading /\ AllDone(ts)
    THEN /\ individualBalances' =
                individualBalances \o Flatten([i \in 1..Len(ts) |-> ts[i].report])
         /\ tokenResults' = tokenResults \o [i \in 1..Len(ts) |-> ts[i].report]
         /\ loading' = FALSE
    ELSE UNCHANGED <<individualBalances, tokenResults, loading>>

\* variant: the reports of the tokens that are done are published once no
\* token is still running, awaited or not
PublishSettled(ts) ==
    IF ts # <<>> /\ (\A i \in 1..Len(ts) : ts[i].pc \in {"done", "rejected"})
    THEN /\ individualBalances' =
                Flatten(SelectSeq([i \in 1..Len(ts) |-> ts[i].report],
                                  LAMBDA r : r # NULL))
         /\ tokenResults' = SelectSeq([i \in 1..Len(ts) |-> ts[i].report],
                                      LAMBDA r : r # NULL)
         /\ loading' = FALSE
    ELSE UNCHANGED <<individualBalances, tokenResults, loading>>

\* the outer Promise.all resolved while checkBalances awaits it: the results
\* are published and the finally block resets loading
Publish(ts) ==
    IF loading /\ AllDone(ts)
    THEN /\ individualBalances' = Flatten([i \in 1..Len(ts) |-> ts[i].report])
         /\ tokenResults' = [i \in 1..Len(ts) |-> ts[i].report]
         /\ loading' = FALSE
    ELSE UNCHANGED <<individualBalances, tokenResults, loading>>

(***************************************************************************)
(* checkBalances, from the click to its first await.  The button is        *)
(* disabled while loading.                                                 *)
(***************************************************************************)
EmptyFieldMessage ==
    IF IsBlank(walletAddresses) THEN MsgNoWallet
    ELSE IF Trim(connectionUrl) = "" THEN MsgNoUrl
    ELSE IF IsBlank(tokenAddresses) THEN MsgNoToken
    ELSE ""

\* one of the three early returns
ClickEmpty ==
    /\ ~loading
    /\ EmptyFieldMessage # ""
    /\ error' = EmptyFieldMessage
    /\ UNCHANGED <<fields, published, runLocals, loading, duplicatesRemoved, faults>>

\* a token address is malformed: thrown before the wallets are read
ClickBadToken ==
    /\ ~loading
    /\ EmptyFieldMessage = ""
    /\ ~AllValid(CleanLines(tokenAddresses))
    /\ error' = RunError(MsgBadToken(FirstInvalid(CleanLines(tokenAddresses))))
    /\ duplicatesRemoved' = 0
    /\ loading' = FALSE
    /\ UNCHANGED <<fields, published, runLocals, faults>>

\* what lines 238-248 make of the wallet field
DedupedWallets == removeDuplicates(CleanLines(walletAddresses))

\* variant: the field is rewritten whether or not duplicates were found
WalletFieldRewritten == DedupedWallets.uniqueAddresses

WalletFieldAfter ==
    IF DedupedWallets.duplicatesRemoved > 0
    THEN DedupedWallets.uniqueAddresses
    ELSE walletAddresses

\* the wallet field is rewritten and the reactive block saves it
RewriteWallets ==
    /\ duplicatesRemoved' = DedupedWallets.duplicatesRemoved
    /\ walletAddresses' = WalletFieldAfter
    /\ storage' = Saved(connectionUrl, tokenAddresses, WalletFieldAfter)
    /\ UNCHANGED <<connectionUrl, tokenAddresses, connection>>

\* a wallet address is malformed: thrown after the duplicates were removed
ClickBadWallet ==
    /\ ~loading
    /\ EmptyFieldMessage = ""
    /\ AllValid(CleanLines(tokenAddresses))
    /\ ~AllValid(DedupedWallets.uniqueAddresses)
    /\ RewriteWallets
    /\ error' = RunError(MsgBadWallet(FirstInvalid(DedupedWallets.uniqueAddresses)))
    /\ loading' = FALSE
    /\ UNCHANGED <<published, runLocals, faults>>

\* variant: the button stays enabled while a run is awaited
ClickStartUnguarded ==
    /\ EmptyFieldMessage = ""
    /\ AllValid(CleanLines(tokenAddresses))
    /\ AllValid(DedupedWallets.uniqueAddresses)
    /\ RewriteWallets
    /\ loading' = TRUE
    /\ error' = ""
    /\ tAddresses' = CleanLines(tokenAddresses)
    /\ addresses' = DedupedWallets.uniqueAddresses
    /\ tasks' = [i \in 1..Len(CleanLines(tokenAddresses)) |->
                    NewTask(CleanLines(tokenAddresses)[i])]
    /\ UNCHANGED <<published, faults>>

\* the input is well formed: every token's task is started.  The token
\* functions of an earlier run that failed may still be running; they
\* assign no variable of the page and are followed no further.
ClickStart ==
    /\ ~loading
    /\ EmptyFieldMessage = ""
    /\ AllValid(CleanLines(tokenAddresses))
    /\ AllValid(DedupedWallets.uniqueAddresses)
    /\ RewriteWallets
    /\ loading' = TRUE
    /\ error' = ""
    /\ tAddresses' = CleanLines(tokenAddresses)
    /\ addresses' = DedupedWallets.uniqueAddresses
    /\ tasks' = [i \in 1..Len(CleanLines(tokenAddresses)) |->
                    NewTask(CleanLines(tokenAddresses)[i])]
    /\ UNCHANGED <<published, faults>>

checkBalances == ClickEmpty \/ ClickBadToken \/ ClickBadWallet \/ ClickStart

(***************************************************************************)
(* The responses.  A call fails only while the fault bound allows it.      *)
(***************************************************************************)
CanFail == faults < MaxFaults

Count(outcome) == IF outcome = "ok" THEN faults ELSE faults + 1

Settled(status) == IF status = "inflight" THEN "inflight" ELSE "settled"

Other(which) == IF which = "tokenFetch" THEN "priceFetch" ELSE "tokenFetch"

\* variant: a rejected fetch is not caught and rejects the token's function
InfoOnFetchUncaught(task, which, outcome) ==
    LET other == task[Other(which)]
        closed == [task EXCEPT ![which] = "settled", ![Other(which)] = Settled(other)]
    IN IF task.infoPc # "fetch" THEN closed
       ELSE IF outcome = "rejected"
       THEN [closed EXCEPT !.infoPc = "caught", !.info = NULL, !.pc = "rejected"]
       ELSE IF other = "inflight" THEN [task EXCEPT ![which] = outcome]
       ELSE IF outcome = "ok" /\ other = "ok" THEN [closed EXCEPT !.infoPc = "parse"]
       ELSE [closed EXCEPT !.infoPc = "notok", !.info = NULL]

\* getTokenInfo on the response of one of its two fetches: a rejection is
\* caught at once; with both responses in, both must be OK for the bodies
\* to be parsed
InfoOnFetch(task, which, outcome) ==
    LET other == task[Other(which)]
        closed == [task EXCEPT ![which] = "settled", ![Other(which)] = Settled(other)]
    IN IF task.infoPc # "fetch" THEN closed
       ELSE IF outcome = "rejected" THEN [closed EXCEPT !.infoPc = "caught", !.info = NULL]
       ELSE IF other = "inflight" THEN [task EXCEPT ![which] = outcome]
       ELSE IF outcome = "ok" /\ other = "ok" THEN [closed EXCEPT !.infoPc = "parse"]
       ELSE [closed EXCEPT !.infoPc = "notok", !.info = NULL]

FetchResponds(i, which, outcome) ==
    /\ tasks[i][which] = "inflight"
    /\ outcome # "ok" => CanFail
    /\ tasks' = [tasks EXCEPT ![i] = Join(InfoOnFetch(tasks[i], which, outcome), addresses)]
    /\ faults' = Count(outcome)
    /\ UNCHANGED <<fields, published, loading, error, duplicatesRemoved,
                   tAddresses, addresses>>

TokenFetchResponds(i, outcome) == FetchResponds(i, "tokenFetch", outcome)

PriceFetchResponds(i, outcome) == FetchResponds(i, "priceFetch", outcome)

\* getTokenInfo after both bodies are read: the info, or null when one of
\* them does not parse
InfoOnParse(task, outcome) ==
    IF outcome = "ok"
    THEN [task EXCEPT !.infoPc = "info", !.info = TokenInfo(task.mint)]
    ELSE [task EXCEPT !.infoPc = "caught", !.info = NULL]

BodiesParsed(i, outcome) ==
    /\ tasks[i].infoPc = "parse"
    /\ outcome # "ok" => CanFail
    /\ tasks' = [tasks EXCEPT ![i] = Join(InfoOnParse(tasks[i], outcome), addresses)]
    /\ faults' = Count(outcome)
    /\ UNCHANGED <<fields, published, loading, error, duplicatesRemoved,
                   tAddresses, addresses>>

\* getTotalSupply resolved
SupplyOk(i) ==
    /\ tasks[i].supplyPc = "inflight"
    /\ tasks' = [tasks EXCEPT ![i] =
                    Join([tasks[i] EXCEPT !.supplyPc = "ok",
                                          !.supply = ChainSupply(tasks[i].mint)],
                         addresses)]
    /\ UNCHANGED <<fields, published, loading, error, duplicatesRemoved,
                   tAddresses, addresses, faults>>

\* variant: the failure is kept to its token and the run goes on
SupplyFailsQuietly(i) ==
    /\ tasks[i].supplyPc = "inflight"
    /\ CanFail
    /\ tasks' = [tasks EXCEPT ![i].supplyPc = "failed", ![i].pc = "rejected"]
    /\ faults' = faults + 1
    /\ UNCHANGED <<fields, published, duplicatesRemoved, tAddresses, addresses,
                   error, loading>>

\* getTotalSupply rethrows: the token's function rejects, and so does the
\* outer Promise.all; checkBalances, if it still awaits it, reports the error
SupplyFails(i) ==
    /\ tasks[i].supplyPc = "inflight"
    /\ CanFail
    /\ tasks' = [tasks EXCEPT ![i].supplyPc = "failed", ![i].pc = "rejected"]
    /\ faults' = faults + 1
    /\ IF loading
       THEN error' = RunError(ErrSupply) /\ loading' = FALSE
       ELSE UNCHANGED <<error, loading>>
    /\ UNCHANGED <<fields, published, duplicatesRemoved, tAddresses, addresses>>

\* getTokenBalance returned: its record
DoneLookup(lookup, record) == [lookup EXCEPT !.pc = "done", !.result = record]

FailedRecord(walletAddress, message) ==
    [address |-> walletAddress, balance |-> 0, percentage |-> 0, error |-> message]

\* variant: an owner without token accounts is reported as a failure
LookupOnAccountsNoneIsError(lookup, mint, outcome) ==
    LET tokenAccounts == ChainAccounts(lookup.address, mint)
    IN IF outcome # "ok" \/ Len(tokenAccounts) = 0
       THEN DoneLookup(lookup, FailedRecord(lookup.address, ErrAccounts))
       ELSE [lookup EXCEPT !.pc = "balance", !.accounts = tokenAccounts, !.k = 1,
                           !.via = Append(lookup.via, connection)]

\* getTokenBalance on the answer of getTokenAccountsByOwner
LookupOnAccounts(lookup, mint, outcome) ==
    LET tokenAccounts == ChainAccounts(lookup.address, mint)
    IN IF outcome # "ok" THEN DoneLookup(lookup, FailedRecord(lookup.address, ErrAccounts))
       ELSE IF Len(tokenAccounts) = 0
       THEN DoneLookup(lookup, [address |-> lookup.address, balance |-> 0, percentage |-> 0])
       ELSE [lookup EXCEPT !.pc = "balance", !.accounts = tokenAccounts, !.k = 1,
                           !.via = Append(lookup.via, connection)]

\* variant: the catch block reports what was summed before the failure
LookupOnBalanceKeepsSum(lookup, totalSupply, outcome) ==
    LET balance == lookup.balance + ChainAmount(lookup.accounts[lookup.k])
    IN IF outcome # "ok"
       THEN DoneLookup(lookup, [address |-> lookup.address, balance |-> lookup.balance,
                                percentage |-> Percentage(lookup.balance, totalSupply),
                                error |-> ErrBalance])
       ELSE IF lookup.k < Len(lookup.accounts)
       THEN [lookup EXCEPT !.balance = balance, !.k = lookup.k + 1,
                           !.via = Append(lookup.via, connection)]
       ELSE DoneLookup([lookup EXCEPT !.balance = balance],
                       [address |-> lookup.address, balance |-> balance,
                        percentage |-> Percentage(balance, totalSupply)])

\* variant: a balance call that failed is issued once more
LookupOnBalanceRetries(lookup, totalSupply, outcome) ==
    LET balance == lookup.balance + ChainAmount(lookup.accounts[lookup.k])
    IN IF outcome # "ok" THEN [lookup EXCEPT !.via = Append(lookup.via, connection)]
       ELSE IF lookup.k < Len(lookup.accounts)
       THEN [lookup EXCEPT !.balance = balance, !.k = lookup.k + 1,
                           !.via = Append(lookup.via, connection)]
       ELSE DoneLookup([lookup EXCEPT !.balance = balance],
                       [address |-> lookup.address, balance |-> balance,
                        percentage |-> Percentage(balance, totalSupply)])

\* getTokenBalance on the answer of getTokenAccountBalance for account k
LookupOnBalance(lookup, totalSupply, outcome) ==
    LET balance == lookup.balance + ChainAmount(lookup.accounts[lookup.k])
    IN IF outcome # "ok" THEN DoneLookup(lookup, FailedRecord(lookup.address, ErrBalance))
       ELSE IF lookup.k < Len(lookup.accounts)
       THEN [lookup EXCEPT !.balance = balance, !.k = lookup.k + 1,
                           !.via = Append(lookup.via, connection)]
       ELSE DoneLookup([lookup EXCEPT !.balance = balance],
                       [address |-> lookup.address, balance |-> balance,
                        percentage |-> Percentage(balance, totalSupply)])

\* a step of wallet j of token i, then what it completes
LookupStep(i, j, lookup, outcome) ==
    LET ts == [tasks EXCEPT ![i] = Collect([tasks[i] EXCEPT !.wallets[j] = lookup])]
    IN /\ outcome # "ok" => CanFail
       /\ tasks' = ts
       /\ faults' = Count(outcome)
       /\ Publish(ts)
       /\ UNCHANGED <<fields, error, duplicatesRemoved, tAddresses, addresses>>

AccountsRespond(i, j, outcome) ==
    /\ j \in 1..Len(tasks[i].wallets)
    /\ tasks[i].wallets[j].pc = "accounts"
    /\ LookupStep(i, j, LookupOnAccounts(tasks[i].wallets[j], tasks[i].mint, outcome),
                  outcome)

BalanceResponds(i, j, outcome) ==
    /\ j \in 1..Len(tasks[i].wallets)
    /\ tasks[i].wallets[j].pc = "balance"
    /\ LookupStep(i, j, LookupOnBalance(tasks[i].wallets[j], tasks[i].supply, outcome),
                  outcome)

Outcome == {"ok", "failed"}
FetchOutcome == {"ok", "notok", "rejected"}

Next ==
    \/ ClickEmpty
    \/ ClickBadToken
    \/ ClickBadWallet
    \/ ClickStart
    \/ \E i \in 1..Len(tasks), outcome \in FetchOutcome : TokenFetchResponds(i, outcome)
    \/ \E i \in 1..Len(tasks), outcome \in FetchOutcome : PriceFetchResponds(i, outcome)
    \/ \E i \in 1..Len(tasks), outcome \in Outcome : BodiesParsed(i, outcome)
    \/ \E i \in 1..Len(tasks) : SupplyOk(i)
    \/ \E i \in 1..Len(tasks) : SupplyFails(i)
    \/ \E i \in 1..Len(tasks), j \in 1..Len(addresses), outcome \in Outcome :
          AccountsRespond(i, j, outcome)
    \/ \E i \in 1..Len(tasks), j \in 1..Len(addresses), outcome \in Outcome :
          BalanceResponds(i, j, outcome)

Spec == Init /\ [][Next]_vars

(***************************************************************************)
(* The page with a user who edits the URL field at any moment: the bound   *)
(* field changes and the two reactive blocks run, one saving the fields,   *)
(* the other rebuilding the connection handle (or reporting the URL).      *)
(***************************************************************************)
EditUrl(url) ==
    /\ url # connectionUrl
    /\ connectionUrl' = url
    /\ storage' = Saved(url, tokenAddresses, walletAddresses)
    /\ connection' = NewConnection(connection, url)
    /\ error' = ConnectionError(error, url)
    /\ UNCHANGED <<walletAddresses, tokenAddresses, loading, published,
                   duplicatesRemoved, runLocals, faults>>

InitUrl ==
    /\ Init
    /\ Len(tokenAddresses) * (3 + Len(walletAddresses)) <= MaxUrlCalls

NextUrl ==
    \/ ClickEmpty
    \/ ClickBadToken
    \/ ClickBadWallet
    \/ ClickStart
    \/ \E i \in 1..Len(tasks), outcome \in FetchOutcome : TokenFetchResponds(i, outcome)
    \/ \E i \in 1..Len(tasks), outcome \in FetchOutcome : PriceFetchResponds(i, outcome)
    \/ \E i \in 1..Len(tasks), outcome \in Outcome : BodiesParsed(i, outcome)
    \/ \E i \in 1..Len(tasks) : SupplyOk(i)
    \/ \E i \in 1..Len(tasks) : SupplyFails(i)
    \/ \E i \in 1..Len(tasks), j \in 1..Len(addresses), outcome \in Outcome :
          AccountsRespond(i, j, outcome)
    \/ \E i \in 1..Len(tasks), j \in 1..Len(addresses), outcome \in Outcome :
          BalanceResponds(i, j, outcome)
    \/ \E url \in UrlValue : EditUrl(url)

SpecUrl == InitUrl /\ [][NextUrl]_vars

(***************************************************************************)
(* Every outbound call is answered in the end: while a call or a body read *)
(* is pending, one of them completes.                                      *)
(***************************************************************************)
Respond ==
    \/ \E i \in 1..Len(tasks), outcome \in FetchOutcome : TokenFetchResponds(i, outcome)
    \/ \E i \in 1..Len(tasks), outcome \in FetchOutcome : PriceFetchResponds(i, outcome)
    \/ \E i \in 1..Len(tasks), outcome \in Outcome : BodiesParsed(i, outcome)
    \/ \E i \in 1..Len(tasks) : SupplyOk(i)
    \/ \E i \in 1..Len(tasks) : SupplyFails(i)
    \/ \E i \in 1..Len(tasks), j \in 1..Len(addresses), outcome \in Outcome :
          AccountsRespond(i, j, outcome)
    \/ \E i \in 1..Len(tasks), j \in 1..Len(addresses), outcome \in Outcome :
          BalanceResponds(i, j, outcome)

FairSpec == InitUrl /\ [][Next]_vars /\ WF_vars(Respond)

(***************************************************************************)
(* Properties.                                                             *)
(***************************************************************************)
Results == {tokenResults[i] : i \in 1..Len(tokenResults)}

RECURSIVE BalanceTotal(_)
BalanceTotal(records) ==
    IF records = <<>> THEN 0 ELSE Head(records).balance + BalanceTotal(Tail(records))

HasError(record) == "error" \in DOMAIN record

\* C1: in every published report totalBalance is the sum of the balance
\* fields of its records, a record with an error counting 0, and
\* percentageOfSupply is totalBalance / totalSupply * 100, or 0 when
\* totalSupply is 0.
C1_ReportTotals ==
    \A r \in Results :
        /\ r.totalBalance = BalanceTotal(r.balances)
        /\ \A j \in 1..Len(r.balances) : HasError(r.balances[j]) => r.balances[j].balance = 0
        /\ r.totalSupply > 0 => r.percentageOfSupply * r.totalSupply = r.totalBalance * 100
        /\ r.totalSupply = 0 => r.percentageOfSupply = 0

\* supply 1000, balances 100 and 0: total 100, 10 percent
C1_Witness ==
    \E r \in Results :
        /\ r.totalSupply = 1000
        /\ Len(r.balances) = 2
        /\ r.balances[1].balance = 100
        /\ r.balances[2].balance = 0
        /\ r.totalBalance = 100
        /\ r.percentageOfSupply = 10

\* the lines of a field that hold a malformed address
Malformed(text) == {i \in 1..Len(text) : Trim(text[i]) \notin ValidKey \cup {""}}

Lowest(S) == CHOOSE i \in S : \A k \in S : i <= k

BlankField(text) == \A i \in 1..Len(text) : text[i] \in {"", " "}

AnyFieldBlank ==
    BlankField(walletAddresses) \/ BlankField(tokenAddresses) \/ connectionUrl \in {"", " "}

\* the message a malformed input must produce
MalformedMessage ==
    IF Malformed(tokenAddresses) # {}
    THEN "Error: Invalid token address format: "
             \o Trim(tokenAddresses[Lowest(Malformed(tokenAddresses))])
    ELSE "Error: Invalid wallet address format: "
             \o Trim(walletAddresses[Lowest(Malformed(walletAddresses))])

\* the outbound calls of the tasks that have not been answered
LookupInFlight(lookup) == IF lookup.pc \in {"accounts", "balance"} THEN 1 ELSE 0

RECURSIVE LookupsInFlight(_)
LookupsInFlight(lookups) ==
    IF lookups = <<>> THEN 0
    ELSE LookupInFlight(Head(lookups)) + LookupsInFlight(Tail(lookups))

TaskInFlight(task) ==
    (IF task.tokenFetch = "inflight" THEN 1 ELSE 0)
    + (IF task.priceFetch = "inflight" THEN 1 ELSE 0)
    + (IF task.supplyPc = "inflight" THEN 1 ELSE 0)
    + LookupsInFlight(task.wallets)

RECURSIVE InFlight(_)
InFlight(ts) == IF ts = <<>> THEN 0 ELSE TaskInFlight(Head(ts)) + InFlight(Tail(ts))

RECURSIVE AmountTotal(_)
AmountTotal(accounts) ==
    IF accounts = <<>> THEN 0 ELSE ChainAmount(Head(accounts)) + AmountTotal(Tail(accounts))

IsPercentage(percentage, balance, totalSupply) ==
    IF totalSupply > 0 THEN percentage * totalSupply = balance * 100 ELSE percentage = 0

\* the record of a wallet none of whose calls failed
SoundRecord(record, mint, totalSupply) ==
    /\ ~HasError(record)
    /\ record.balance = AmountTotal(ChainAccounts(record.address, mint))
    /\ IsPercentage(record.percentage, record.balance, totalSupply)

\* the record of a wallet one of whose calls failed
ZeroedRecord(record) ==
    /\ HasError(record)
    /\ record.error \in {ErrAccounts, ErrBalance}
    /\ record.balance = 0
    /\ record.percentage = 0

Reports(ts) == [i \in 1..Len(ts) |-> ts[i].report]

RunComplete == tasks # <<>> /\ \A i \in 1..Len(tasks) : tasks[i].pc = "done"

\* C4: a failed call of one (wallet, token) pair zeroes that pair's record
\* and puts the error string on it; every other record of the token is what
\* the chain holds; the failure never becomes the error of the run, and the
\* run whose lookups have all returned has published its reports.
C4_WalletFailureIsolated ==
    /\ \A r \in Results : \A j \in 1..Len(r.balances) :
          \/ ZeroedRecord(r.balances[j])
          \/ SoundRecord(r.balances[j], r.address, r.totalSupply)
    /\ \A i \in 1..Len(tasks) : \A j \in 1..Len(tasks[i].wallets) :
          LET lookup == tasks[i].wallets[j]
          IN lookup.pc = "done" =>
                \/ ZeroedRecord(lookup.result)
                \/ SoundRecord(lookup.result, tasks[i].mint, tasks[i].supply)
    /\ error \notin {RunError(ErrAccounts), RunError(ErrBalance)}
    /\ RunComplete => ~loading /\ error = "" /\ tokenResults = Reports(tasks)

\* the balance of W1's second account of T2 failed after the first was
\* summed; W2's record of T2 is sound and the report is published
C4_Witness ==
    /\ ~loading
    /\ error = ""
    /\ \E i \in 1..Len(tasks) :
          /\ tasks[i].mint = "T2"
          /\ tokenResults = Reports(tasks)
          /\ \E j, k \in 1..Len(tasks[i].wallets) :
                /\ tasks[i].wallets[j].k = 2
                /\ tasks[i].wallets[j].balance = 50
                /\ tokenResults[i].balances[j] = FailedRecord("W1", ErrBalance)
                /\ tokenResults[i].balances[k] =
                       [address |-> "W2", balance |-> 30, percentage |-> 0]

\* C5: a failed enrichment (a rejected fetch, a non-OK response, a body
\* that does not parse) leaves info null and nothing else: it rejects no
\* token and sets no error, and the report has the supply, balances and
\* totals that the RPC answers alone determine.
C5_EnrichmentNonFatal ==
    /\ \A i \in 1..Len(tasks) :
          LET task == tasks[i]
          IN /\ task.pc = "rejected" => task.supplyPc = "failed"
             /\ task.infoPc \in {"notok", "caught"} => task.info = NULL
             /\ task.infoPc = "info" => task.info = TokenInfo(task.mint)
             /\ task.pc = "done" =>
                   /\ task.report.info = task.info
                   /\ task.report.totalSupply = ChainSupply(task.mint)
                   /\ task.report.balances =
                          [j \in 1..Len(task.wallets) |-> task.wallets[j].result]
                   /\ task.report.totalBalance = BalanceTotal(task.report.balances)
                   /\ IsPercentage(task.report.percentageOfSupply,
                                   task.report.totalBalance, ChainSupply(task.mint))
    /\ (tasks # <<>> /\ \A i \in 1..Len(tasks) : tasks[i].supplyPc # "failed") => error = ""
    /\ RunComplete => ~loading /\ tokenResults = Reports(tasks)

\* a fetch of T1's enrichment was rejected and the report is published
\* with the full numbers
C5_Witness ==
    /\ ~loading
    /\ error = ""
    /\ \E i \in 1..Len(tasks) :
          /\ tasks[i].infoPc = "caught"
          /\ i \in 1..Len(tokenResults)
          /\ tokenResults[i].info = NULL
          /\ tokenResults[i].totalSupply = 1000
          /\ tokenResults[i].totalBalance = 100
          /\ tokenResults[i].percentageOfSupply = 10

\* the reports of the tasks that produced one, in token order
RECURSIVE DoneReports(_)
DoneReports(ts) ==
    IF ts = <<>> THEN <<>>
    ELSE (IF Head(ts).pc = "done" THEN <<Head(ts).report>> ELSE <<>>) \o DoneReports(Tail(ts))

SupplyFailed(ts) == \E i \in 1..Len(ts) : ts[i].supplyPc = "failed"

\* C6 as stated: after a run in which the supply fetch of a token failed,
\* the reports of the other tokens are published and none for that token.
C6_AsStated == (~loading /\ SupplyFailed(tasks)) => tokenResults = DoneReports(tasks)

\* C6: a supply fetch that fails ends the run: it resets loading and, if the
\* run was still awaited, sets error to the failure; no report of the run is
\* published, for any token, then or later; the tasks of the other tokens
\* are not touched.
C6_SupplyFailureEndsRun ==
    [][/\ \A i \in 1..Len(tasks) :
             (Len(tasks') = Len(tasks) /\ tasks[i].supplyPc = "inflight"
                  /\ tasks'[i].supplyPc = "failed")
               => /\ loading => error' = RunError(ErrSupply)
                  /\ ~loading => error' = error
                  /\ \A k \in 1..Len(tasks) : k # i => tasks'[k] = tasks[k]
       /\ SupplyFailed(tasks') => ~loading' /\ UNCHANGED published]_vars

\* the supply fetch of the first token failed, the second token's report
\* was produced all the same, and nothing is published
C6_Witness ==
    /\ ~loading
    /\ error = RunError(ErrSupply)
    /\ Len(tasks) = 2
    /\ tasks[1].supplyPc = "failed"
    /\ tasks[2].pc = "done"
    /\ tokenResults = <<>>

\* C7: a wallet whose account list is empty gets balance 0, percentage 0
\* and no error field, and no balance call is issued for it (the record
\* carries an error only when the account lookup itself failed, which no
\* call has while faults is 0).
C7_NoAccounts ==
    \A i \in 1..Len(tasks) : \A j \in 1..Len(tasks[i].wallets) :
        LET lookup == tasks[i].wallets[j]
            empty == [address |-> lookup.address, balance |-> 0, percentage |-> 0]
        IN ChainAccounts(lookup.address, tasks[i].mint) = <<>> =>
              /\ lookup.pc # "balance"
              /\ lookup.k = 0
              /\ lookup.pc = "done" =>
                    \/ lookup.result = empty
                    \/ lookup.result = FailedRecord(lookup.address, ErrAccounts)
              /\ (lookup.pc = "done" /\ faults = 0) => lookup.result = empty

\* W2 holds no account of T1: its published record
C7_Witness ==
    \E i \in 1..Len(tokenResults) : \E j \in 1..Len(tokenResults[i].balances) :
        /\ tokenResults[i].address = "T1"
        /\ tokenResults[i].balances[j] = [address |-> "W2", balance |-> 0, percentage |-> 0]
        /\ i \in 1..Len(tasks)
        /\ tasks[i].wallets[j].k = 0

\* out holds every distinct element of in once, in the order of their first
\* occurrences
FirstIndex(x, in) == Lowest({i \in 1..Len(in) : in[i] = x})

Deduplicated(out, in) ==
    /\ {out[i] : i \in 1..Len(out)} = {in[i] : i \in 1..Len(in)}
    /\ \A p, q \in 1..Len(out) : p < q => FirstIndex(out[p], in) < FirstIndex(out[q], in)

\* C8: removeDuplicates returns every distinct address of its input once,
\* in first-occurrence order, and sets duplicatesRemoved to the input
\* length minus the output length; applied to its own output it returns
\* that list and reports zero removed.
C8_RemoveDuplicates ==
    [][ClickStart =>
          LET in == CleanLines(walletAddresses)
          IN /\ Deduplicated(addresses', in)
             /\ duplicatesRemoved' = Len(in) - Len(addresses')
             /\ removeDuplicates(addresses')
                    = [uniqueAddresses |-> addresses', duplicatesRemoved |-> 0]]_vars

\* a field of three entries, two of them W1, after the run started
C8_Witness ==
    /\ addresses = <<"W1", "W2">>
    /\ duplicatesRemoved = 1
    /\ walletAddresses = <<"W1", "W2">>
    /\ loading

\* the records of all reports, in order
RECURSIVE AllRecords(_)
AllRecords(results) ==
    IF results = <<>> THEN <<>> ELSE Head(results).balances \o AllRecords(Tail(results))

\* C9 as stated: when a run ends, every published report is one that run
\* produced.
C9_AsStated ==
    [][(loading /\ ~loading')
         => \A i \in 1..Len(tokenResults') :
               \E k \in 1..Len(tasks') :
                  tasks'[k].pc = "done" /\ tasks'[k].report = tokenResults'[i]]_vars

\* C9: the published results change only when a run ends without error, and
\* then they are exactly that run's reports, one per token in order, and
\* their records; a run that fails or is rejected leaves them as they were.
C9_ReplacedOnSuccess ==
    [][IF loading /\ ~loading' /\ error' = ""
       THEN /\ Len(tokenResults') = Len(tasks')
            /\ \A i \in 1..Len(tasks') :
                  tasks'[i].pc = "done" /\ tokenResults'[i] = tasks'[i].report
            /\ individualBalances' = AllRecords(tokenResults')
       ELSE UNCHANGED published]_vars

\* a second run failed on the supply fetch: the error is shown over the
\* report of the run before
C9_Witness ==
    /\ ~loading
    /\ error = RunError(ErrSupply)
    /\ Len(tasks) = 1
    /\ tasks[1].pc = "rejected"
    /\ Len(tokenResults) = 1
    /\ individualBalances = tokenResults[1].balances

\* C10 as stated: no step changes a field or its persisted copy.
C10_AsStated ==
    [][UNCHANGED <<connectionUrl, tokenAddresses, walletAddresses, storage>>]_vars

\* the trimmed, non-empty entries of the wallet field
WalletEntries == CleanLines(walletAddresses)

HasDuplicates(in) == \E p, q \in 1..Len(in) : p # q /\ in[p] = in[q]

\* C10: a run never changes the URL field or the token field, and the
\* persisted copies always equal the fields; the wallet field changes only
\* in a checkBalances that passed the empty-field and token checks and
\* found duplicates, and then it becomes the deduplicated entries, the
\* number removed being reported.
C10_OnlyDuplicatesRewritten ==
    [][/\ connectionUrl' = connectionUrl
       /\ tokenAddresses' = tokenAddresses
       /\ storage' = Saved(connectionUrl', tokenAddresses', walletAddresses')
       /\ IF checkBalances /\ ~AnyFieldBlank /\ Malformed(tokenAddresses) = {}
               /\ HasDuplicates(WalletEntries)
          THEN /\ Deduplicated(walletAddresses', WalletEntries)
               /\ duplicatesRemoved' = Len(WalletEntries) - Len(walletAddresses')
               /\ duplicatesRemoved' > 0
          ELSE walletAddresses' = walletAddresses]_vars

\* duplicates were removed from the field and saved, then a wallet entry
\* turned out malformed
C10_Witness ==
    /\ walletAddresses = <<"x1", "W1">>
    /\ storage.walletAddresses = <<"x1", "W1">>
    /\ duplicatesRemoved = 1
    /\ error = "Error: Invalid wallet address format: x1"

\* the trimmed entries of a field, without its blank lines
RECURSIVE Entries(_)
Entries(text) ==
    IF text = <<>> THEN <<>>
    ELSE (IF Head(text) \in {"", " "} THEN <<>> ELSE <<Trim(Head(text))>>)
         \o Entries(Tail(text))

RecordAddresses(report) == [j \in 1..Len(report.balances) |-> report.balances[j].address]

\* C11: when a run ends without error, or whenever the published reports
\* change, there is one report per non-empty token line, in the order of the
\* lines, and each report holds one record per distinct wallet entry, in the
\* order of their first occurrences in the wallet field, whatever the order
\* in which the calls were answered.
C11_ReportOrder ==
    [][((loading /\ ~loading' /\ error' = "") \/ tokenResults' # tokenResults)
         => LET tokens == Entries(tokenAddresses')
                wallets == Entries(walletAddresses')
            IN /\ Len(tokenResults') = Len(tokens)
               /\ \A i \in 1..Len(tokenResults') :
                     /\ tokenResults'[i].address = tokens[i]
                     /\ Deduplicated(RecordAddresses(tokenResults'[i]), wallets)
                     /\ Len(tokenResults'[i].balances)
                            = Cardinality({wallets[j] : j \in 1..Len(wallets)})]_vars

\* the wallets W2, W1, W2 were checked for one token: the records of W2 and
\* W1, in that order
C11_Witness ==
    /\ ~loading
    /\ error = ""
    /\ duplicatesRemoved = 1
    /\ walletAddresses = <<"W2", "W1">>
    /\ Len(tokenResults) = 1
    /\ RecordAddresses(tokenResults[1]) = <<"W2", "W1">>

\* a step in which checkBalances starts the tasks of a run
RunStarts == ~loading /\ loading'

AllInFlight(task) ==
    /\ task.tokenFetch = "inflight"
    /\ task.priceFetch = "inflight"
    /\ task.supplyPc = "inflight"

\* both getTokenInfo and getTotalSupply of the task have returned
BothReturned(task) ==
    /\ task.infoPc \in {"info", "notok", "caught"}
    /\ task.supplyPc = "ok"

\* C12: the step that starts a run puts the enrichment fetches and the
\* supply fetch of every token in flight together; a token's wallet lookups
\* exist only once its supply fetch has succeeded (and its enrichment has
\* returned), never after a failed one; they are all issued in one step,
\* one per wallet and none answered yet, and that step is taken as soon as
\* the token's own two calls have returned, whatever the other tokens do.
C12_IssueOrder ==
    [][/\ RunStarts =>
             \A i \in 1..Len(tasks') :
                 AllInFlight(tasks'[i]) /\ tasks'[i].pc = "join" /\ tasks'[i].wallets = <<>>
       /\ \A i \in 1..Len(tasks') :
             /\ tasks'[i].pc = "join" <=> tasks'[i].wallets = <<>> /\ tasks'[i].supplyPc # "failed"
             /\ tasks'[i].pc = "rejected" <=> tasks'[i].supplyPc = "failed"
             /\ tasks'[i].wallets # <<>> => BothReturned(tasks'[i])
             /\ tasks'[i].pc = "join" => ~BothReturned(tasks'[i])
       /\ ~RunStarts =>
             \A i \in 1..Len(tasks) :
                 /\ tasks[i].wallets # <<>> => Len(tasks'[i].wallets) = Len(tasks[i].wallets)
                 /\ (tasks[i].wallets = <<>> /\ tasks'[i].wallets # <<>>) =>
                        /\ Len(tasks'[i].wallets) = Len(addresses)
                        /\ \A j \in 1..Len(addresses) :
                              /\ tasks'[i].wallets[j].pc = "accounts"
                              /\ tasks'[i].wallets[j].address = addresses[j]
                        /\ \A k \in 1..Len(tasks) : k # i => tasks'[k] = tasks[k]]_vars

\* the lookup of the second token is in flight while none of the three
\* calls of the first token has been answered
C12_Witness ==
    /\ loading
    /\ Len(tasks) = 2
    /\ AllInFlight(tasks[1])
    /\ tasks[2].pc = "wallets"
    /\ \A j \in 1..Len(tasks[2].wallets) : tasks[2].wallets[j].pc = "accounts"

FetchesInFlight(task) ==
    (IF task.tokenFetch = "inflight" THEN 1 ELSE 0)
    + (IF task.priceFetch = "inflight" THEN 1 ELSE 0)

RECURSIVE RpcLookups(_)
RpcLookups(ts) ==
    IF ts = <<>> THEN 0 ELSE LookupsInFlight(Head(ts).wallets) + RpcLookups(Tail(ts))

Larger(a, b) == IF a >= b THEN a ELSE b

\* C13 as stated: while a run is in flight, at most wallets x tokens calls
\* are outstanding.
C13_AsStated == loading => InFlight(tasks) <= Len(addresses) * Len(tasks)

\* C13: a token has at most three calls outstanding before its lookups are
\* started (two enrichment fetches and the supply fetch) and afterwards at
\* most one call per wallet plus one enrichment fetch left behind by a
\* rejected one; so at most tokens x max(3, wallets + 1) calls are
\* outstanding, of which at most wallets x tokens are wallet lookups.
C13_FanOut ==
    /\ \A i \in 1..Len(tasks) :
          LET task == tasks[i]
          IN /\ task.pc \in {"join", "rejected"} =>
                   TaskInFlight(task) <= 3 /\ LookupsInFlight(task.wallets) = 0
             /\ task.pc \in {"wallets", "done"} =>
                   /\ task.supplyPc = "ok"
                   /\ FetchesInFlight(task) <= 1
                   /\ LookupsInFlight(task.wallets) <= Len(addresses)
                   /\ TaskInFlight(task) <= Len(addresses) + 1
    /\ RpcLookups(tasks) <= Len(addresses) * Len(tasks)
    /\ InFlight(tasks) <= Len(tasks) * Larger(3, Len(addresses) + 1)

\* two tokens, one wallet: both lookups are outstanding, wallets x tokens
\* of them, together with an enrichment fetch of each token
C13_Witness ==
    /\ loading
    /\ Len(tasks) = 2
    /\ Len(addresses) = 1
    /\ RpcLookups(tasks) = 2
    /\ InFlight(tasks) = 4

\* C14 as stated: while a run is awaited, checkBalances can be invoked from
\* the page.
C14_AsStated == loading => ENABLED checkBalances

\* a step after which the tasks are those of a run just started
NewRun ==
    /\ tasks' # tasks
    /\ tasks' # <<>>
    /\ \A i \in 1..Len(tasks') :
          /\ AllInFlight(tasks'[i])
          /\ tasks'[i].infoPc = "fetch"
          /\ tasks'[i].pc = "join"

\* C14: the button is disabled while loading, so a run is started only
\* when no run is awaited; while a run is awaited nothing writes error, the
\* published results or the run's inputs, and the step that ends it writes
\* that run's outcome: its reports, or its error over the results as they
\* were.
C14_NoReentry ==
    [][/\ NewRun => ~loading /\ loading'
       /\ (loading /\ loading') =>
             UNCHANGED <<error, published, tAddresses, addresses, duplicatesRemoved,
                         walletAddresses, tokenAddresses>>
       /\ (loading /\ ~loading') =>
             /\ UNCHANGED <<tAddresses, addresses>>
             /\ \/ error' = "" /\ tokenResults' = Reports(tasks')
                \/ error' = RunError(ErrSupply) /\ UNCHANGED published]_vars

\* a second run, started after the first had published its reports, has had
\* a supply answered and is awaited
C14_Witness ==
    /\ loading
    /\ tokenResults # <<>>
    /\ \E i \in 1..Len(tasks) : tasks[i].supplyPc = "ok"
    /\ ~ENABLED checkBalances

\* the endpoint a value of the URL field stands for, and whether it is one
EndpointOf(url) == IF url = "" THEN "https://api.mainnet-beta.solana.com" ELSE url

IsEndpoint(url) == url # " "

Last(seq) == seq[Len(seq)]

\* the endpoints that answered the RPC calls of a task
Endpoints(task) ==
    {task.supplyVia}
    \cup UNION {{task.wallets[j].via[n] : n \in 1..Len(task.wallets[j].via)} :
                   j \in 1..Len(task.wallets)}

\* C15: a change of the URL field to an endpoint replaces the connection
\* handle in that very step, also while a run is in flight, and leaves the
\* calls in flight alone (a value that is no endpoint leaves the handle as
\* it was); every RPC call a run issues, at its start or later, goes to
\* the endpoint of the handle as it is then.
C15_HandleNotPinned ==
    [][/\ connectionUrl' # connectionUrl =>
             /\ connection' = IF IsEndpoint(connectionUrl')
                               THEN EndpointOf(connectionUrl') ELSE connection
             /\ tasks' = tasks
       /\ connectionUrl' = connectionUrl => connection' = connection
       /\ RunStarts => \A i \in 1..Len(tasks') : tasks'[i].supplyVia = connection'
       /\ ~RunStarts =>
             \A i \in 1..Len(tasks) :
                 /\ tasks'[i].supplyVia = tasks[i].supplyVia
                 /\ \A j \in 1..Len(tasks'[i].wallets) :
                       LET now == tasks'[i].wallets[j].via
                           before == IF tasks[i].wallets = <<>> THEN <<>>
                                     ELSE tasks[i].wallets[j].via
                       IN \/ now = before
                          \/ now = Append(before, connection)]_vars

\* the URL was changed while a run was in flight: the published report
\* has its supply from one endpoint, and the balance of a wallet summed
\* from accounts listed by that endpoint and balances of the other
C15_Witness ==
    /\ ~loading
    /\ error = ""
    /\ Len(tasks) = 1
    /\ tokenResults = Reports(tasks)
    /\ tasks[1].supplyVia = "http://u1"
    /\ \E j \in 1..Len(tasks[1].wallets) :
          /\ tasks[1].wallets[j].via
                 = <<"http://u1", "https://api.mainnet-beta.solana.com",
                     "https://api.mainnet-beta.solana.com">>
          /\ tokenResults[1].balances[j].balance = 100
    /\ Cardinality(Endpoints(tasks[1])) = 2

\* the fetch or supply call of a task is not issued again once answered
AnsweredStays(before, now) == before # "inflight" => now # "inflight"

\* the RPC calls a lookup has issued: the account list and one balance per
\* account reached
IssuedOnce(lookup) ==
    /\ Len(lookup.via) = 1 + lookup.k
    /\ lookup.k <= Len(lookup.accounts)
    /\ lookup.pc = "accounts" => lookup.k = 0
    /\ lookup.pc = "balance" => lookup.k >= 1

\* the run of the current tasks has ended
Ended(ts) == AllDone(ts) \/ SupplyFailed(ts)

\* C16: a run that was started keeps loading true until all its tokens
\* are done or a supply fetch failed, and in that step loading is reset and
\* either the run's reports are published with error empty or error is the
\* failure and the results stay; with every call answered in the end the
\* run does end; no call is issued twice: an answered fetch or supply call
\* is never in flight again, a lookup issues its account call once and one
\* balance call per account, and it is done with the first call that fails.
C16_RunEnds ==
    /\ [][/\ RunStarts => tasks' # <<>> /\ ~Ended(tasks')
          /\ (loading /\ loading') => ~Ended(tasks') /\ error' = ""
          /\ (loading /\ ~loading') =>
                /\ Ended(tasks')
                /\ \/ AllDone(tasks') /\ tokenResults' = Reports(tasks') /\ error' = ""
                   \/ SupplyFailed(tasks') /\ error' = RunError(ErrSupply)
                          /\ UNCHANGED published
          /\ ~RunStarts =>
                \A i \in 1..Len(tasks) :
                    /\ AnsweredStays(tasks[i].tokenFetch, tasks'[i].tokenFetch)
                    /\ AnsweredStays(tasks[i].priceFetch, tasks'[i].priceFetch)
                    /\ AnsweredStays(tasks[i].supplyPc, tasks'[i].supplyPc)
                    /\ \A j \in 1..Len(tasks'[i].wallets) :
                          /\ IssuedOnce(tasks'[i].wallets[j])
                          /\ (tasks[i].wallets # <<>>
                                 /\ tasks[i].wallets[j].pc = "done") =>
                                tasks'[i].wallets[j] = tasks[i].wallets[j]
                          /\ (tasks[i].wallets # <<>> /\ faults' > faults) =>
                                \/ tasks'[i].wallets[j] = tasks[i].wallets[j]
                                \/ tasks'[i].wallets[j].pc = "done"]_vars
    /\ (loading ~> ~loading)

\* a run ended with its report published although the balance call of
\* a wallet's second account had failed: three calls were issued for that
\* wallet and none again
C16_Witness ==
    /\ ~loading
    /\ error = ""
    /\ faults = 1
    /\ Len(tasks) = 1
    /\ tokenResults = Reports(tasks)
    /\ \E j \in 1..Len(tasks[1].wallets) :
          /\ tasks[1].wallets[j].result = FailedRecord("W1", ErrBalance)
          /\ Len(tasks[1].wallets[j].via) = 3

\* C17 as stated: once a run has ended none of its calls is in flight, and
\* no step taken after its end puts a call in flight.
C17_AsStated ==
    [][(~loading' /\ tasks' # <<>>) => InFlight(tasks') = 0]_vars

\* C17: when a run ends with its reports published, every supply fetch and
\* every wallet lookup of the run has been answered: only an enrichment
\* fetch whose sibling was rejected can still be in flight.  When a run ends
\* because a supply fetch failed, the calls of its tokens stay in flight and
\* the other tokens go on to issue their wallet lookups; whatever is
\* answered after the end of a run changes none of loading, error, the
\* published results, the fields or their saved copies.
C17_AfterTheEnd ==
    [][/\ (~loading' /\ AllDone(tasks')) =>
             /\ RpcLookups(tasks') = 0
             /\ \A i \in 1..Len(tasks') :
                   tasks'[i].supplyPc = "ok" /\ FetchesInFlight(tasks'[i]) <= 1
       /\ (~loading /\ ~loading' /\ tasks' # tasks) =>
             /\ UNCHANGED <<error, published, duplicatesRemoved, fields>>
             /\ AllDone(tasks) => Reports(tasks') = Reports(tasks)
             /\ InFlight(tasks') > InFlight(tasks) => SupplyFailed(tasks)]_vars

\* the run ended on the failed supply fetch of the first token; afterwards
\* the second token, none of whose calls had been answered by then, has
\* had its supply and enrichment answered and has its lookup in flight
C17_Witness ==
    /\ ~loading
    /\ error = RunError(ErrSupply)
    /\ faults = 1
    /\ Len(tasks) = 2
    /\ tasks[1].supplyPc = "failed"
    /\ FetchesInFlight(tasks[1]) = 2
    /\ tasks[2].infoPc = "info"
    /\ tasks[2].pc = "wallets"
    /\ RpcLookups(tasks) = 1

====
